---- MODULE Spec2Model ----
(***************************************************************************)
(* A model of the Cache entity of ionic-cache-observable (src/src/cache.ts) *)
(* and of the RxJS 5 operators its refresh pipeline is built from:         *)
(*   observable.finally(clear).do(set, error.next).share()                  *)
(* One Cache object, its storage, a bounded set of callers that use get(),  *)
(* refresh(), isEmpty() and get$, and the producers bound with              *)
(* setObservable().                                                         *)
(***************************************************************************)
EXTENDS Naturals, Sequences, FiniteSets

\* ------------------------------------------------------------------ bounds
NumGetters == 2
NumClients == 1
MaxHandles == 2
MaxWrites == 1
MaxObservers == 2
MaxCaches == 2
MaxRegs == 2

\* The callers of the cache: callers that read it with get(), and clients that
\* use refresh() themselves and subscribe to get$.
Getters == 1..NumGetters
Clients == (NumGetters + 1)..(NumGetters + NumClients)
Callers == Getters \cup Clients
HandleIds == 1..MaxHandles

\* ------------------------------------------------------------------ values
Undefined == "undefined"
Null == "null"
NoHandle == 0
Anon == 0
None == "none"

\* The cache treats its values alike but for null: one value and null.
DataValues == {"a", Null}
StoreValues == {Undefined} \cup DataValues
SetValues == DataValues
AccessError == "Cache failed to access local storage."
RetrieveError == "Cache failed to retrieve from local storage."

\* A producer is the Observable<T> handed to the constructor or setObservable:
\* each time it is subscribed to it yields one value or fails, either during
\* the subscribe call (sync, as Observable.of or Observable.throw do) or later
\* (as an HTTP request does).
Producers == { [sync |-> FALSE], [sync |-> TRUE] }

\* What an invocation of a producer may end with: a value, or the error E.
ErrorE == "E"
Yields == DataValues \cup {ErrorE}

useLocalStorage == TRUE

\* What the storage holds when the cache is constructed, and the allowNull the
\* application sets on the new object (false unless it does). The flag is read
\* when the load resolves, where it decides something only for a stored null,
\* and in the get$ filter.
Configs == (StoreValues \X {FALSE}) \cup {<< Null, TRUE >>}

VARIABLES
  readyResolved,     \* readyPromise has been resolved
  loadState,         \* the constructor's storage.ready().then(storage.get): pending, done, failed
  loaded,
  empty,             \* undefined | true | false
  allowNull,
  data,              \* the BehaviorSubject's current value
  stored,            \* what storage holds under this.name
  writeQ,            \* storage.set calls scheduled by set(), oldest first
  errorOut,          \* what the last step emitted on error$ (a Subject: nothing is kept)
  observable,        \* the bound producer
  refreshObservable, \* the in-flight slot: NoHandle or a handle
  handles,           \* the shared observables refresh() has built
  pc,                \* what each caller is in the middle of
  handle,            \* the refresh observable a caller holds or is subscribed to
  isEmptyOut,        \* what the last step resolved an isEmpty() promise with
  got                \* what the last step handed to the caller's callbacks; a
                     \* subscriber of a refresh keeps its value until the refresh ends

\* The CacheService (src/unnamed/part_000).
VARIABLES
  caches,            \* CacheService.caches: the Cache objects, in the order they were pushed
  regs,              \* the observables register() has returned and callers still hold:
                     \* per caller << >> or << the observable >>
  yielded            \* what the last step yielded to a subscriber of register() or
                     \* get(): {} or {the cache's position, or NotFound}

cacheVars == << readyResolved, loadState, loaded, empty, allowNull, data, stored, writeQ,
                errorOut, observable, refreshObservable, handles, pc, handle, isEmptyOut, got >>

serviceVars == << caches, regs, yielded >>

vars == << cacheVars, serviceVars >>

\* The whole state as one record, so that a handler is a function of states.
\* What the previous step put out (errorOut, got) is gone when a step starts.
Cur ==
  [ readyResolved |-> readyResolved, loadState |-> loadState, loaded |-> loaded,
    empty |-> empty, allowNull |-> allowNull, data |-> data, stored |-> stored,
    writeQ |-> writeQ, errorOut |-> {}, observable |-> observable,
    refreshObservable |-> refreshObservable, handles |-> handles,
    pc |-> pc, handle |-> handle, isEmptyOut |-> None,
    got |-> [c \in Callers |-> IF pc[c] \in {"attached", "getAttached"} THEN got[c] ELSE None] ]

Commit(t) ==
  /\ readyResolved' = t.readyResolved
  /\ loadState' = t.loadState
  /\ loaded' = t.loaded
  /\ empty' = t.empty
  /\ allowNull' = t.allowNull
  /\ data' = t.data
  /\ stored' = t.stored
  /\ writeQ' = t.writeQ
  /\ errorOut' = t.errorOut
  /\ observable' = t.observable
  /\ refreshObservable' = t.refreshObservable
  /\ handles' = t.handles
  /\ pc' = t.pc
  /\ handle' = t.handle
  /\ isEmptyOut' = t.isEmptyOut
  /\ got' = t.got
  /\ UNCHANGED serviceVars

FreshHandle == [producer |-> [sync |-> FALSE], conn |-> "idle", observers |-> << >>]

\* ------------------------------------------------------------ helpers
\* JavaScript truthiness of this.empty: undefined and false are both falsy.
IsEmptyFlag(st) == st.empty = "true"

\* Whether the subscriber passed an error callback to subscribe(). The callers
\* of get() and refresh() do; the subscription of line 108,
\* this.refresh().subscribe(), passes none.
HasHandler(c) == c # Anon

\* A handle nothing refers to any more: not in the slot, not connected, held by
\* no caller. Its index can be given to the next observable refresh() builds.
Free(st, h) ==
  /\ st.refreshObservable # h
  /\ st.handles[h].conn = "idle"
  /\ st.handles[h].observers = << >>
  /\ \A c \in Callers : st.handle[c] # h

HasFree(st) == \E h \in HandleIds : Free(st, h)

NewHandle(st) == CHOOSE h \in HandleIds : Free(st, h) /\ \A k \in HandleIds : Free(st, k) => h <= k

Collect(st) ==
  [st EXCEPT !.handles = [h \in HandleIds |-> IF Free(st, h) THEN FreshHandle ELSE st.handles[h]]]

\* A subscriber of a refresh observable is done with it (completion or error):
\* get()'s inner subscription ends the get() call, a caller of refresh() keeps
\* the observable it was handed.
finish(st, S, outcome) ==
  [st EXCEPT
    !.pc = [c \in Callers |-> IF c \in S
                              THEN (IF st.pc[c] = "getAttached" THEN "idle" ELSE "holding")
                              ELSE st.pc[c]],
    !.handle = [c \in Callers |-> IF c \in S /\ st.pc[c] = "getAttached" THEN NoHandle ELSE st.handle[c]],
    !.got = [c \in Callers |-> IF c \in S
                               THEN (IF outcome # None THEN outcome
                                     ELSE IF st.got[c] = None THEN "completed" ELSE st.got[c])
                               ELSE st.got[c]]]

\* -------------------------------------------------- get$ (lines 105-116)
\* this.data is the BehaviorSubject itself, so `this.data !== null` holds always.
DataFieldNotNull == TRUE

\* The filter predicate's result when it does not take the refresh branch.
filterPasses(st) == ~IsEmptyFlag(st) /\ (st.allowNull \/ DataFieldNotNull)

\* this.data.next(v): the BehaviorSubject keeps v and hands it to every active
\* get$ subscription, each through the filter of lines 105-116. It is called
\* by set(), which has just made the empty flag false, and by the load, before
\* readiness, when no get$ subscription is active yet: the filter's refresh
\* branch is taken only on the replay to a new subscriber (see getStream).
dataNext(st, v) ==
  LET s1 == [st EXCEPT !.data = v]
  IN [s1 EXCEPT !.got = [c \in Callers |->
        IF s1.pc[c] = "streaming" /\ filterPasses(s1) THEN v ELSE s1.got[c]]]

\* ------------------------------------------------- set (lines 201-210)
set(st, v) ==
  LET s1 == [st EXCEPT !.empty = "false"]
      s2 == dataNext(s1, v)
  IN IF useLocalStorage THEN [s2 EXCEPT !.writeQ = Append(@, v)] ELSE s2

\* --------------------------------------------- refresh (lines 182-194)
\* Builds observable.finally(...).do(...).share() when the slot is null, and
\* returns the slot's observable: st.refreshObservable of the result.
refresh(st) ==
  IF st.refreshObservable = NoHandle
  THEN LET h == NewHandle(st)
       IN [st EXCEPT !.handles[h] = [producer |-> st.observable, conn |-> "idle", observers |-> << >>],
                     !.refreshObservable = h]
  ELSE st

\* The callback of .finally(): this.refreshObservable = null, whichever
\* observable the slot holds by then.
finallyClear(st) == [st EXCEPT !.refreshObservable = NoHandle]

\* Subscribing to the observable share() returned. A connected subject takes
\* one more observer. An unconnected one (never subscribed, settled, or left by
\* all its subscribers) connects: it subscribes to the producer the handle was
\* built from. A synchronous producer ends inside this subscribe, with the
\* outcome v.
subscribe(st, h, c, v) ==
  LET hd == st.handles[h]
      p == hd.producer
  IN IF hd.conn # "idle"
     THEN [st EXCEPT !.handles[h].observers = Append(@, c)]
     ELSE IF ~p.sync
     THEN [st EXCEPT !.handles[h].conn = "running", !.handles[h].observers = << c >>]
     ELSE IF v = ErrorE
     THEN finallyClear(finish([st EXCEPT !.errorOut = {ErrorE}],
                              {c} \cap Callers, ErrorE))
     ELSE LET s1 == set(st, v)
              s2 == [s1 EXCEPT !.got = [k \in Callers |-> IF k = c THEN v ELSE s1.got[k]]]
          IN finallyClear(finish(s2, {c} \cap Callers, None))

\* subscribe() throws to its caller when the error arrives during the call and
\* the subscriber has no error callback.
subscribeThrows(st, h, c, v) ==
  LET hd == st.handles[h]
  IN hd.conn = "idle" /\ hd.producer.sync /\ v = ErrorE /\ ~HasHandler(c)

\* ------------------------------------------------------------ Init
\* A CacheService as constructed: no cache registered.
ServiceInit ==
  /\ caches = << >>
  /\ regs = [r \in 1..MaxRegs |-> << >>]
  /\ yielded = {}

Init ==
  /\ ServiceInit
  /\ readyResolved = FALSE
  /\ loadState = "pending"
  /\ loaded = FALSE
  /\ empty = Undefined
  /\ data = Null
  /\ \E cfg \in Configs : stored = cfg[1] /\ allowNull = cfg[2]
  /\ writeQ = << >>
  /\ errorOut = {}
  /\ observable \in Producers
  /\ refreshObservable = NoHandle
  /\ handles = [h \in HandleIds |-> FreshHandle]
  /\ pc = [c \in Callers |-> "idle"]
  /\ handle = [c \in Callers |-> NoHandle]
  /\ isEmptyOut = None
  /\ got = [c \in Callers |-> None]

\* ------------------------------------------------- constructor's load
\* A load that never finds a stored value.
loadResolvedIgnoresStore(st) ==
  [st EXCEPT !.empty = "true", !.loaded = TRUE, !.readyResolved = TRUE, !.loadState = "done"]

\* storage.ready().then(() => storage.get(name).then(...)) succeeded
\* (lines 120-131).
loadResolved(st) ==
  LET found == st.stored # Undefined /\ (st.allowNull \/ st.stored # Null)
      s1 == IF found
            THEN [dataNext(st, st.stored) EXCEPT !.empty = "false"]
            ELSE [st EXCEPT !.empty = "true"]
  IN [s1 EXCEPT !.loaded = TRUE, !.readyResolved = TRUE, !.loadState = "done"]

\* storage.ready() or storage.get() rejected (lines 132-144).
loadRejected(st, msg) ==
  [st EXCEPT !.errorOut = {msg}, !.loadState = "failed"]

LoadOk ==
  /\ loadState = "pending"
  /\ Commit(Collect(loadResolved(Cur)))

LoadFail ==
  /\ loadState = "pending"
  /\ \E msg \in {AccessError, RetrieveError} : Commit(Collect(loadRejected(Cur, msg)))

\* --------------------------------------------------- get (lines 166-175)
\* get() hands back fromPromise(ready()).mergeMap(...); the caller subscribes
\* to it. This is the mergeMap callback, which runs once readyPromise is
\* resolved; until then the call only waits.
\* A get() that goes through the refresh machinery on a non-empty cache too,
\* leaving the slot reset.
getViaRefresh(st, c, v) ==
  IF IsEmptyFlag(st)
  THEN LET s1 == refresh(st)
           h == s1.refreshObservable
           s2 == [s1 EXCEPT !.pc[c] = "getAttached", !.handle[c] = h]
       IN subscribe(s2, h, c, v)
  ELSE finallyClear([st EXCEPT !.got[c] = st.data])

get(st, c, v) ==
  IF IsEmptyFlag(st)
  THEN LET s1 == refresh(st)
           h == s1.refreshObservable
           s2 == [s1 EXCEPT !.pc[c] = "getAttached", !.handle[c] = h]
       IN subscribe(s2, h, c, v)
  ELSE [st EXCEPT !.got[c] = st.data]

\* The model's bounds: refresh() can build an observable only while a handle
\* is free, and a step must leave the queues within their bounds.
\* The outcomes a subscribe to h can have during the call: those of a
\* synchronous producer if the call connects, else none.
SyncYields(st, h) ==
  IF st.handles[h].conn = "idle" /\ st.handles[h].producer.sync THEN Yields ELSE {None}

CanRefresh(st) == st.refreshObservable # NoHandle \/ HasFree(st)

Within(t) ==
  /\ Len(t.writeQ) <= MaxWrites
  /\ \A h \in HandleIds : Len(t.handles[h].observers) <= MaxObservers

Get(c) ==
  /\ pc[c] = "idle"
  /\ readyResolved
  /\ IsEmptyFlag(Cur) => CanRefresh(Cur)
  /\ \E v \in (IF IsEmptyFlag(Cur) THEN SyncYields(refresh(Cur), refresh(Cur).refreshObservable) ELSE {None}) :
       LET t == get(Cur, c, v) IN Within(t) /\ Commit(Collect(t))

\* ----------------------------------------------- refresh (lines 182-194)
\* A caller calls refresh() and keeps the observable it returns.
Refresh(c) ==
  /\ pc[c] = "idle"
  /\ CanRefresh(Cur)
  /\ LET s1 == refresh(Cur)
     IN Commit(Collect([s1 EXCEPT !.pc[c] = "holding", !.handle[c] = s1.refreshObservable]))

\* The caller subscribes to the observable it holds.
Subscribe(c) ==
  /\ pc[c] = "holding"
  /\ \E v \in SyncYields(Cur, handle[c]) :
       LET t == subscribe([Cur EXCEPT !.pc[c] = "attached"], handle[c], c, v)
       IN Within(t) /\ Commit(Collect(t))

\* The caller drops the observable it held.
Forget(c) ==
  /\ pc[c] = "holding"
  /\ Commit(Collect([Cur EXCEPT !.pc[c] = "idle", !.handle[c] = NoHandle]))

\* Removing one occurrence of c from a subject's observers.
RECURSIVE Without(_, _)
Without(seq, c) ==
  IF seq = << >> THEN << >>
  ELSE IF Head(seq) = c THEN Tail(seq)
  ELSE << Head(seq) >> \o Without(Tail(seq), c)

InSeq(seq, c) == \E i \in 1..Len(seq) : seq[i] = c

\* Unsubscribing from a refresh observable: refCount drops; at zero share()
\* unsubscribes from the producer, which runs the finally callback.
leave(st, c) ==
  LET h == st.handle[c]
      obs == st.handles[h].observers
      rest == Without(obs, c)
      s1 == IF ~InSeq(obs, c) THEN st
            ELSE IF rest # << >> THEN [st EXCEPT !.handles[h].observers = rest]
            ELSE finallyClear([st EXCEPT !.handles[h].observers = << >>, !.handles[h].conn = "idle"])
  IN IF st.pc[c] = "attached"
     THEN [s1 EXCEPT !.pc[c] = "holding", !.got[c] = None]
     ELSE [s1 EXCEPT !.pc[c] = "idle", !.handle[c] = NoHandle, !.got[c] = None]

Unsubscribe(c) ==
  \/ /\ pc[c] \in {"attached", "getAttached"}
     /\ Commit(Collect(leave(Cur, c)))
  \/ /\ pc[c] = "streaming"
     /\ Commit([Cur EXCEPT !.pc[c] = "idle"])

\* ------------------------------------------------------- the producer
Observers(st, h) == {st.handles[h].observers[i] : i \in 1..Len(st.handles[h].observers)} \cap Callers

\* The producer emits its value: do() calls set(), then the subject hands the
\* value to every observer. The slot is left as it is until the producer ends.
producerNext(st, h, v) ==
  LET s1 == set(st, v)
      S == Observers(st, h)
  IN [s1 EXCEPT !.handles[h].conn = "emitted",
                !.got = [c \in Callers |-> IF c \in S THEN v ELSE s1.got[c]]]

\* The producer completes: share() drops its connection, which runs the
\* finally callback, and the subject completes every observer.
producerComplete(st, h) ==
  LET S == Observers(st, h)
      s1 == finallyClear([st EXCEPT !.handles[h].conn = "idle", !.handles[h].observers = << >>])
  IN finish(s1, S, None)

\* The observers an error reaches: the subject calls them in order, and the
\* first one without an error callback throws, which ends the loop.
Notified(st, h) ==
  LET obs == st.handles[h].observers
      bad == {i \in 1..Len(obs) : ~HasHandler(obs[i])}
  IN {obs[i] : i \in {j \in 1..Len(obs) : \A b \in bad : j <= b}} \cap Callers

\* A failure that is passed on without releasing the slot.
producerErrorKeepsSlot(st, h) ==
  LET e == ErrorE
      S == Notified(st, h)
      s1 == [st EXCEPT !.errorOut = {e}]
      s2 == [s1 EXCEPT !.handles[h].conn = "idle", !.handles[h].observers = << >>]
  IN finish(s2, S, e)

\* The producer fails: do() emits the error on error$, share() drops its
\* connection (finally callback), and the subject passes the error on.
producerError(st, h) ==
  LET e == ErrorE
      S == Notified(st, h)
      s1 == [st EXCEPT !.errorOut = {e}]
      s2 == finallyClear([s1 EXCEPT !.handles[h].conn = "idle", !.handles[h].observers = << >>])
  IN finish(s2, S, e)

ProducerNext(h) ==
  /\ handles[h].conn = "running"
  /\ \E v \in DataValues :
       LET t == producerNext(Cur, h, v) IN Within(t) /\ Commit(Collect(t))

ProducerComplete(h) ==
  /\ handles[h].conn = "emitted"
  /\ Commit(Collect(producerComplete(Cur, h)))

ProducerError(h) ==
  /\ handles[h].conn = "running"
  /\ Commit(Collect(producerError(Cur, h)))

\* ------------------------------------------------ set, setObservable
Set(v) ==
  LET t == set(Cur, v) IN Within(t) /\ Commit(t)

setObservable(st, p) == [st EXCEPT !.observable = p]

SetObservable(p) ==
  /\ p # observable
  /\ Commit(setObservable(Cur, p))

\* ------------------------------------------- isEmpty (lines 226-228)
\* ready().then(() => this.empty): resolves once readyPromise is resolved.
isEmpty(st) == [st EXCEPT !.isEmptyOut = st.empty]

\* An isEmpty() that does not wait for readyPromise.
IsEmptyUngated == Commit(isEmpty(Cur))

IsEmpty ==
  /\ readyResolved
  /\ Commit(isEmpty(Cur))

\* ------------------------------------------------ get$ (lines 105-116)
\* A subscription to get$. It waits for readyPromise; then mergeMap subscribes to the BehaviorSubject, which
\* replays its current value through the filter. On an empty cache the filter
\* subscribes to refresh() without callbacks and holds the value back; an error
\* thrown by that subscribe is caught by filter and ends the get$ subscription.
getStream(st, c, v) ==
  LET s0 == [st EXCEPT !.pc[c] = "streaming"]
  IN IF IsEmptyFlag(s0)
     THEN LET s1 == refresh(s0)
              h == s1.refreshObservable
              s2 == subscribe(s1, h, Anon, v)
          IN IF subscribeThrows(s1, h, Anon, v)
             THEN [s2 EXCEPT !.pc[c] = "idle", !.got[c] = ErrorE]
             ELSE s2
     ELSE IF filterPasses(s0) THEN [s0 EXCEPT !.got[c] = s0.data] ELSE s0

GetStream(c) ==
  /\ pc[c] = "idle"
  /\ readyResolved
  /\ IsEmptyFlag(Cur) => CanRefresh(Cur)
  /\ \E v \in (IF IsEmptyFlag(Cur) THEN SyncYields(refresh(Cur), refresh(Cur).refreshObservable) ELSE {None}) :
       LET t == getStream(Cur, c, v) IN Within(t) /\ Commit(Collect(t))

\* ------------------------------------------------------- the storage
\* The storage.set(name, data) that set() scheduled behind readyPromise.
storeSetResolved(st) ==
  [st EXCEPT !.stored = Head(st.writeQ), !.loaded = TRUE, !.writeQ = Tail(st.writeQ)]

\* It rejects: the promise chain of line 208 has no rejection handler.
storeSetRejected(st) == [st EXCEPT !.writeQ = Tail(st.writeQ)]

StoreSetOk ==
  /\ readyResolved
  /\ writeQ # << >>
  /\ Commit(storeSetResolved(Cur))

StoreSetFail ==
  /\ readyResolved
  /\ writeQ # << >>
  /\ Commit(storeSetRejected(Cur))

\* ------------------------------------------- a new Cache, same storage
\* new Cache(name, p, storage) over the storage of the entity so far (lines
\* 22-101): every field as declared, the store as it is. an is the allowNull
\* the application gives the new object.
reconstruct(st, an, p) ==
  [st EXCEPT !.readyResolved = FALSE, !.loadState = "pending", !.loaded = FALSE,
             !.empty = Undefined, !.allowNull = an, !.data = Null, !.writeQ = << >>,
             !.observable = p, !.refreshObservable = NoHandle,
             !.handles = [h \in HandleIds |-> FreshHandle],
             !.pc = [c \in Callers |-> "idle"],
             !.handle = [c \in Callers |-> NoHandle],
             !.got = [c \in Callers |-> None]]

\* The application starts again: the entity so far is gone, with nothing of
\* it left in flight, and a new one is constructed.
Reconstruct ==
  /\ \A c \in Callers : pc[c] = "idle"
  /\ \A h \in HandleIds : handles[h].conn = "idle"
  /\ writeQ = << >>
  /\ \E cfg \in Configs, p \in Producers :
       cfg[1] = stored /\ Commit(reconstruct(Cur, cfg[2], p))

Next ==
  \/ Reconstruct
  \/ LoadOk
  \/ LoadFail
  \/ \E c \in Getters : Get(c)
  \/ \E c \in Clients : Refresh(c)
  \/ \E c \in Clients : Subscribe(c)
  \/ \E c \in Callers : Unsubscribe(c)
  \/ \E c \in Clients : Forget(c)
  \/ IsEmpty
  \/ \E c \in Clients : GetStream(c)
  \/ \E h \in HandleIds : ProducerNext(h)
  \/ \E h \in HandleIds : ProducerComplete(h)
  \/ \E h \in HandleIds : ProducerError(h)
  \/ \E v \in SetValues : Set(v)
  \/ \E p \in Producers : SetObservable(p)
  \/ StoreSetOk
  \/ StoreSetFail

Spec == Init /\ [][Next]_vars

\* ------------------------------------- CacheService (src/unnamed/part_000)
Names == {"x", "y"}
RegIds == 1..MaxRegs

\* The result of get(name) when no cache has the name: Observable.throw(...).
NotFound == 0

\* overwrite !== false: an omitted overwrite counts as true.
Overwrites == BOOLEAN

\* get(name), lines 56-64: the first cache of that name, by its position in
\* caches, or the error.
serviceGet(cs, name) ==
  LET hits == {i \in 1..Len(cs) : cs[i].name = name}
  IN IF hits = {} THEN NotFound ELSE CHOOSE i \in hits : \A j \in hits : i <= j

\* register(name, observable, overwrite), lines 34-48: this.get(name) is
\* evaluated by the call; catch() and map() run for each subscription to the
\* observable the call returns.
register(cs, name, p, ow) ==
  [name |-> name, producer |-> p, overwrite |-> ow, found |-> serviceGet(cs, name)]

\* One subscription to that observable: the cache get() found, or else a new
\* Cache pushed to caches (lines 36-40); then setObservable unless overwrite
\* is false (lines 42-44). The result is << caches, the cache yielded >>.
registerSubscribe(cs, g) ==
  LET cs1 == IF g.found = NotFound
             THEN Append(cs, [name |-> g.name, producer |-> g.producer])
             ELSE cs
      idx == IF g.found = NotFound THEN Len(cs1) ELSE g.found
      cs2 == IF g.overwrite THEN [cs1 EXCEPT ![idx].producer = g.producer] ELSE cs1
  IN << cs2, idx >>

Register(r) ==
  /\ regs[r] = << >>
  /\ \E name \in Names, p \in Producers, ow \in Overwrites :
       regs' = [regs EXCEPT ![r] = << register(caches, name, p, ow) >>]
  /\ yielded' = {}
  /\ UNCHANGED << caches, cacheVars >>

RegisterSubscribe(r) ==
  /\ regs[r] # << >>
  /\ LET t == registerSubscribe(caches, regs[r][1])
     IN /\ Len(t[1]) <= MaxCaches
        /\ caches' = t[1]
        /\ yielded' = {t[2]}
  /\ UNCHANGED << regs, cacheVars >>

\* The caller lets go of the observable register() returned.
RegisterDrop(r) ==
  /\ regs[r] # << >>
  /\ regs' = [regs EXCEPT ![r] = << >>]
  /\ yielded' = {}
  /\ UNCHANGED << caches, cacheVars >>

\* get(name), subscribed to at once.
ServiceGet(name) ==
  /\ yielded' = {serviceGet(caches, name)}
  /\ UNCHANGED << caches, regs, cacheVars >>

NextService ==
  \/ \E r \in RegIds : Register(r)
  \/ \E r \in RegIds : RegisterSubscribe(r)
  \/ \E r \in RegIds : RegisterDrop(r)
  \/ \E name \in Names : ServiceGet(name)

SpecService == Init /\ [][NextService]_vars

\* ============================================================ properties

\* The producer invocations that are outstanding: connections of a shared
\* observable to its producer that have not ended.
Outstanding == {h \in HandleIds : handles[h].conn \in {"running", "emitted"}}

\* C1: in every reachable state at most one producer invocation is
\* outstanding, also when a handle returned by refresh() is subscribed to
\* later than the refresh() call that returned it.
C1_AtMostOneOutstanding == Cardinality(Outstanding) <= 1

\* A caller subscribed to a refresh observable that the observable has dropped
\* without telling it anything: its callbacks will never run.
Orphaned(c) ==
  /\ pc[c] \in {"attached", "getAttached"}
  /\ ~InSeq(handles[handle[c]].observers, c)

\* The step just taken ended c's subscription to a refresh with a value or an
\* error.
Told(c) == pc[c] \in {"idle", "holding"} /\ got[c] \notin {None, "completed"}

\* C2: every caller that attached to a refresh while it was outstanding
\* observes its outcome, the same value or error as every other caller
\* attached to it: none is left without an outcome, and the callers a step
\* tells an outcome are told the same one.
C2_SameOutcome ==
  /\ \A c \in Callers : ~Orphaned(c)
  /\ \A c1, c2 \in Callers : Told(c1) /\ Told(c2) => got[c1] = got[c2]

\* C3: concurrent get() calls on an entity that is empty after readiness
\* share one producer invocation: any two get() calls that are waiting for a
\* refresh wait for the same one.
C3_GetsShareOneInvocation ==
  \A c1, c2 \in Getters :
    (pc[c1] = "getAttached" /\ pc[c2] = "getAttached" /\ ~Orphaned(c1) /\ ~Orphaned(c2))
      => handle[c1] = handle[c2]

\* C4: in every reachable state where the entity is ready and not empty, a
\* get() resolves to the current in-memory value and changes nothing else:
\* no producer is invoked (the observables are as they were) and the in-flight
\* slot, the empty flag, the value and the store are untouched.
C4_GetNonEmptyReadsOnly ==
  (readyResolved /\ ~IsEmptyFlag(Cur)) =>
    \A c \in Getters : \A v \in Yields \cup {None} :
      pc[c] = "idle" => get(Cur, c, v) = [Cur EXCEPT !.got[c] = data]

\* A get() has just resolved from memory while a refresh was outstanding.
C4_Witness ==
  \E c \in Getters :
    /\ pc[c] = "idle" /\ got[c] = data
    /\ readyResolved /\ empty = "false"
    /\ refreshObservable # NoHandle
    /\ handles[refreshObservable].conn = "running"

\* C5: when a result of a refresh (its value or its error) is delivered to a
\* caller subscribed to it, refreshObservable no longer holds that refresh, so
\* that a refresh() called from the result callback starts a new invocation.
C5_SlotClearedOnDelivery ==
  \A c \in Callers :
    (pc[c] \in {"attached", "getAttached", "holding"} /\ got[c] # None)
      => refreshObservable # handle[c]

\* C6: once the initial access to the store has failed, the entity has
\* signalled readiness and is empty, so that get(), isEmpty() and get$ proceed.
C6_ReadyAfterLoadFailure ==
  loadState = "failed" => (readyResolved /\ IsEmptyFlag(Cur))

\* The state a producer failure leaves, seen from the state st before it: E
\* was emitted on error$, nothing was recorded or scheduled for the store,
\* isEmpty() resolves to true, the slot is free, and the next refresh() builds
\* a new, unconnected observable of the bound producer, which the next
\* subscriber will connect.
AfterFailure(st, t) ==
  /\ t.errorOut = {ErrorE}
  /\ t.data = st.data /\ t.empty = "true" /\ t.writeQ = st.writeQ
  /\ isEmpty(t).isEmptyOut = "true"
  /\ t.refreshObservable = NoHandle
  /\ HasFree(t) =>
       LET u == refresh(t)
           k == u.refreshObservable
       IN /\ k # NoHandle
          /\ u.handles[k] = [producer |-> t.observable, conn |-> "idle", observers |-> << >>]

\* C7: when the producer fails with E during a refresh on an empty entity,
\* whether after the subscribe call or during it, E is emitted on error$, no
\* value is recorded, isEmpty() still resolves to true, and a refresh() issued
\* afterwards invokes the producer again.
C7_ProducerFailure ==
  IsEmptyFlag(Cur) =>
    /\ \A h \in HandleIds :
         handles[h].conn = "running" => AfterFailure(Cur, producerError(Cur, h))
    /\ \A c \in Clients :
         (pc[c] = "holding" /\ SyncYields(Cur, handle[c]) # {None})
           => AfterFailure(Cur, subscribe([Cur EXCEPT !.pc[c] = "attached"], handle[c], c, ErrorE))

\* A producer has just failed on an empty entity and a caller was told E.
C7_Witness ==
  /\ errorOut = {ErrorE}
  /\ IsEmptyFlag(Cur)
  /\ refreshObservable = NoHandle
  /\ \E c \in Callers : Told(c) /\ got[c] = ErrorE

\* The step just taken ended c's get$ subscription with an error: a client is
\* handed an error while idle only by getStream.
StreamErrored(c) == c \in Clients /\ pc[c] = "idle" /\ got[c] = ErrorE

\* C8: a subscription to get$ never receives an error, whatever the producer
\* or the store do.
C8_StreamNeverErrors == \A c \in Clients : ~StreamErrored(c)

\* C9: once set(v) has made the empty flag false it is false in every later
\* state, whether set was called before or after the initial load completed.
C9_SetKeepsNonEmpty == [][empty = "false" => empty' = "false"]_vars

\* C10: with allowNull false, an entity whose recorded value is null (from the
\* store, the producer or set) is empty once ready: isEmpty() resolves to
\* true, so that the next get() invokes the producer.
C10_NullIsEmpty ==
  (~allowNull /\ readyResolved /\ data = Null) => isEmpty(Cur).isEmptyOut = "true"

\* The step just taken delivered a value to c's get$ subscription.
Delivered(c) == c \in Clients /\ pc[c] = "streaming" /\ got[c] # None

\* C11: with allowNull false no get$ subscriber is delivered null, and with
\* either setting none is delivered a value while the empty flag is true.
C11_StreamWithholdsNullAndEmpty ==
  \A c \in Clients :
    Delivered(c) => (~IsEmptyFlag(Cur) /\ (allowNull \/ got[c] # Null))

\* C12: once the entity is ready and a value has been recorded, a new get$
\* subscription is handed that value as its first element without anything
\* else happening (no refresh is built, no producer invoked), and an active
\* subscription is handed every value recorded later.
C12_LateSubscriberReplay ==
  \A c \in Clients :
    /\ (readyResolved /\ data # Null /\ pc[c] = "idle") =>
         /\ ~IsEmptyFlag(Cur)
         /\ \A v \in Yields :
              getStream(Cur, c, v) = [Cur EXCEPT !.pc[c] = "streaming", !.got[c] = data]
    /\ pc[c] = "streaming" => \A v \in SetValues : set(Cur, v).got[c] = v

\* C13: when the store write that set(v) scheduled fails, the failure is
\* emitted on error$ and the in-memory value and the empty flag stay as set()
\* left them.
C13_WriteFailureReported ==
  (readyResolved /\ writeQ # << >>) =>
    LET t == storeSetRejected(Cur)
    IN t.errorOut # {} /\ t.data = data /\ t.empty = empty

\* C14: setObservable(p) changes nothing but the bound producer, so a refresh
\* that is outstanding goes on as it was and its callers stay attached; and an
\* invocation that starts while the entity is idle (the slot is free and no
\* invocation is outstanding) is of the producer that is bound at that moment.
C14_RebindAffectsNextRefreshOnly ==
  [][ /\ \A p \in Producers : setObservable(Cur, p) = [Cur EXCEPT !.observable = p]
      /\ \A h \in HandleIds :
           (Outstanding = {} /\ refreshObservable = NoHandle
              /\ handles[h].conn = "idle" /\ handles'[h].conn = "running")
             => handles'[h].producer = observable ]_vars

\* C15: a producer invocation that has started ends only when the producer
\* itself settles: a running invocation stays running until it emits its
\* value or fails (the failure then is on error$), also when its subscribers
\* unsubscribe.
C15_NoCancellation ==
  [][ \A h \in HandleIds :
        (handles[h].conn = "running" /\ handles'[h].conn = "idle") => errorOut' = {ErrorE} ]_vars

\* C16: the registry holds at most one Cache per name.
C16_OneCachePerName ==
  \A i, j \in 1..Len(caches) : caches[i].name = caches[j].name => i = j

\* C17: round trip through the store. From every reachable state of a ready
\* entity with no write in flight: after set(v) and the success of the write
\* it schedules, a new entity constructed over the same storage is ready once
\* its load has completed and then holds v as its in-memory value.
C17_StoreRoundTrip ==
  (readyResolved /\ writeQ = << >>) =>
    \A v \in SetValues : \A cfg \in Configs : \A p \in Producers :
      LET s1 == set(Cur, v)
          s2 == storeSetResolved(s1)
          s3 == reconstruct(s2, cfg[2], p)
          s4 == loadResolved(s3)
      IN /\ s2.stored = v
         /\ s4.readyResolved
         /\ s4.data = v

\* The write of a set(v) has succeeded: the store of an entity that was
\* constructed over a stored null holds the value a, which only set() and its
\* write can have put there, and nothing is left in flight, so that a new
\* entity can be constructed over it.
C17_Witness ==
  /\ allowNull /\ readyResolved /\ loaded /\ writeQ = << >>
  /\ stored = "a" /\ data = stored /\ empty = "false"
  /\ \A c \in Callers : pc[c] = "idle"
  /\ \A h \in HandleIds : handles[h].conn = "idle"

\* Nothing that waits for readiness has happened: no get() is under way or
\* has resolved, no isEmpty() has resolved, no get$ subscription is active or
\* was handed anything, and no store write has gone through.
NothingPastTheGate ==
  /\ \A c \in Getters : pc[c] = "idle" /\ got[c] = None
  /\ isEmptyOut = None
  /\ \A c \in Clients : pc[c] # "streaming" /\ ~StreamErrored(c)
  /\ ~loaded

\* C18: readiness is signalled at most once per entity (once signalled it
\* stays so and the load that signals it does not run again), and in no state
\* before it is signalled has anything happened that waits for it.
C18_ReadinessGate ==
  [][ /\ (readyResolved /\ readyResolved') => (loadState = "done" /\ loadState' = "done")
      /\ ~readyResolved' => NothingPastTheGate' ]_vars

\* Before readiness: a set() has recorded a value and its write is held back.
C18_Witness ==
  /\ ~readyResolved /\ loadState = "pending"
  /\ writeQ # << >> /\ data = "a"
  /\ stored # data

\* C19: a value recorded by set(v) before the initial load has completed (the
\* empty flag is false while the load is pending) is still the in-memory
\* value when the load has completed, and is the stored value once the write
\* that set(v) scheduled has succeeded.
C19_SetBeforeLoadSurvives ==
  [][ (loadState = "pending" /\ empty = "false" /\ loadState' = "done") =>
        /\ data' = data
        /\ writeQ' # << >> => Head(writeQ') = data' ]_vars

\* C20: in every reachable state the in-flight slot refreshObservable is
\* occupied if and only if exactly one producer invocation is outstanding.
C20_SlotIffOutstanding ==
  (refreshObservable # NoHandle) <=> (Cardinality(Outstanding) = 1)

====
